---- MODULE Spec2Model ----
(***************************************************************************)
(* ESC/POS command-buffer builder (packages/printer): the pure helpers of  *)
(* utils.js and the Printer state machine of index.js.                     *)
(*                                                                         *)
(* JavaScript strings are sequences of UTF-16 code units (naturals); the   *)
(* command buffer is a sequence of bytes (0..255).  Entries of the command *)
(* table (commands.js) are opaque: each is one negative integer, so that   *)
(* no command can be mistaken for payload bytes.  Mode names, symbology    *)
(* names and model names are TLA+ strings.                                 *)
(***************************************************************************)
EXTENDS Integers, Sequences, FiniteSets, TLC

VARIABLES
  buffer,    \* this.buffer: the bytes of the MutableBuffer
  width,     \* this.width
  options,   \* this.options: NoOptions or a record [width |-> w]
  model,     \* this._model
  encoding,  \* this.encoding
  wire,      \* the adapter: the sequence of payloads handed to adapter.write
  closed,    \* the adapter: number of adapter.close calls
  pending,   \* the getPixels decodes started, each the callback's closure and whether it ran
  op,        \* what the last step was, with its arguments and outcome
  callLog,   \* bytes of the operations called since the last flush, in call order
  appendLog, \* bytes appended since the last flush, in the order of the appends
  nops,      \* operations called so far
  flushes,   \* flushes called so far
  ctor,      \* how the builder was constructed: [withNew, options]
  fn,        \* pure helper last applied
  in1,       \* its first argument
  in2,       \* its second argument
  inw,       \* its numeric argument
  out,       \* its result
  timers,    \* setTimeout timers that have not fired yet
  bandLog    \* the last image call: "band" per band written, "delay" per timer fired since

vars == <<buffer, width, options, model, encoding, wire, closed, pending, op,
          callLog, appendLog, nops, flushes, ctor, fn, in1, in2, inw, out,
          timers, bandLog>>

printerVars == <<buffer, width, options, model, encoding, wire, closed, pending,
                 op, callLog, appendLog, nops, flushes, ctor, timers, bandLog>>

codecVars == <<fn, in1, in2, inw, out>>

timerVars == <<timers, bandLog>>

----------------------------------------------------------------------------
(* Bounds of the model *)

\* digits of a barcode payload that range over 0..9 (the others are fixed)
MaxFree == 2
\* longest payload handed to codeLength
MaxCodeLen == 255
\* longest column text handed to spaceText
MaxTxt == 2
\* widest line handed to spaceText
MaxW == 6
\* builder operations per session
MaxOps == 2
\* flushes per session
MaxFlush == 2

\* the depth of the call stack, in calls of tableCustom
MaxStack == 4

----------------------------------------------------------------------------
(* Strings and bytes *)

\* the code units of the literals the code uses
SPACE == <<32>>
NUL == <<0>>
StrNaN == <<78, 97, 78>>
StrUndefined == <<117, 110, 100, 101, 102, 105, 110, 101, 100>>


Rep(c, n) == [i \in 1..n |-> c]

Reverse(s) == [i \in 1..Len(s) |-> s[Len(s) + 1 - i]]

IsPrefix(p, s) == Len(p) <= Len(s) /\ SubSeq(s, 1, Len(p)) = p

\* Buffer.from(string) / MutableBuffer.write(string): UTF-8, one code unit at a
\* time (no surrogate pairs are used); command-table entries pass unchanged
Utf8Char(c) ==
  IF c < 128 THEN <<c>>
  ELSE IF c < 2048 THEN <<192 + (c \div 64), 128 + (c % 64)>>
  ELSE <<224 + (c \div 4096), 128 + ((c \div 64) % 64), 128 + (c % 64)>>

RECURSIVE Utf8Encode(_)
Utf8Encode(s) ==
  IF Len(s) = 0 THEN <<>>
  ELSE IF Len(s) = 1 THEN Utf8Char(s[1])
  ELSE LET half == Len(s) \div 2
       IN  Utf8Encode(SubSeq(s, 1, half)) \o Utf8Encode(SubSeq(s, half + 1, Len(s)))

\* Buffer.prototype.toString(): UTF-8 decoding of a buffer of isolated bytes;
\* a byte of 0x80 or more that starts no valid sequence decodes to U+FFFD
Utf8Decode(b) == [i \in 1..Len(b) |-> IF b[i] < 128 THEN b[i] ELSE 65533]

\* Number.prototype.toString(16)
HexDigit(v) == IF v < 10 THEN 48 + v ELSE 97 + (v - 10)

RECURSIVE ToString16(_)
ToString16(n) == IF n < 16 THEN <<HexDigit(n)>> ELSE ToString16(n \div 16) \o <<HexDigit(n % 16)>>

HexVal(c) ==
  IF c \in 48..57 THEN c - 48
  ELSE IF c \in 97..102 THEN c - 87
  ELSE IF c \in 65..70 THEN c - 55
  ELSE -1

\* Buffer.from(s, 'hex'): one byte per complete pair of hex digits, cut at the
\* first pair that is incomplete or not hexadecimal
RECURSIVE BufferFromHex(_)
BufferFromHex(s) ==
  IF Len(s) < 2 \/ HexVal(s[1]) < 0 \/ HexVal(s[2]) < 0 THEN <<>>
  ELSE <<16 * HexVal(s[1]) + HexVal(s[2])>> \o BufferFromHex(SubSeq(s, 3, Len(s)))

----------------------------------------------------------------------------
(* utils.js: the parity/length codec and the layout helpers *)

NaN == -1

parseInt(c) == IF c \in 48..57 THEN c - 48 ELSE NaN

Pow3(e) == IF e = 0 THEN 1 ELSE 3

\* the weights 3 and 1 exchanged
ParityTermSwapped(reversedCode, counter) == parseInt(reversedCode[counter + 1]) * Pow3(counter % 2)

\* line 8: one term of the sum, counter from 0
ParityTerm(reversedCode, counter) == parseInt(reversedCode[counter + 1]) * Pow3((counter + 1) % 2)

RECURSIVE ParityLoop(_, _, _)
ParityLoop(reversedCode, counter, parity) ==
  IF counter >= Len(reversedCode) THEN parity
  ELSE IF parity = NaN \/ parseInt(reversedCode[counter + 1]) = NaN THEN NaN
  ELSE ParityLoop(reversedCode, counter + 1, parity + ParityTerm(reversedCode, counter))

getParityBit(str) ==
  LET parity == ParityLoop(Reverse(str), 0, 0)
  IN  IF parity = NaN THEN StrNaN ELSE <<48 + ((10 - (parity % 10)) % 10)>>

codeLength(str) == Utf8Decode(BufferFromHex(ToString16(Len(str))))

\* every character one byte wide
CharBytesAllSingle(c) == 1

\* lines 21-27: the width of one character
CharBytes(c) == IF c >= 0 /\ c <= 255 THEN 1 ELSE 2

RECURSIVE bytesLength(_)
bytesLength(str) == IF str = <<>> THEN 0 ELSE CharBytes(Head(str)) + bytesLength(Tail(str))

RECURSIVE SpaceLoop(_, _, _)
SpaceLoop(str, i, space) == IF i < space THEN SpaceLoop(str \o SPACE, i + 1, space) ELSE str

spaceText(text1, text2, w) ==
  LET l_bytes == bytesLength(text1)
      r_bytes == bytesLength(text2)
      space == w - l_bytes - r_bytes
  IN  SpaceLoop(text1, 0, space) \o text2

----------------------------------------------------------------------------
(* commands.js: the command table.  Every entry is one opaque token. *)

CommandNames ==
  << "ESC", "TAB", "BEEP",
     "TXT_NORMAL", "TXT_2HEIGHT", "TXT_2WIDTH", "TXT_4SQUARE", "TXT_CUSTOM_SIZE",
     "TXT_UNDERL_OFF", "TXT_UNDERL_ON", "TXT_UNDERL2_ON", "TXT_BOLD_OFF", "TXT_BOLD_ON",
     "TXT_ITALIC_OFF", "TXT_ITALIC_ON", "TXT_FONT_A", "TXT_FONT_B", "TXT_FONT_C",
     "TXT_ALIGN_LT", "TXT_ALIGN_CT", "TXT_ALIGN_RT",
     "HW_INIT", "HW_SELECT", "HW_RESET",
     "LS_DEFAULT", "LS_SET", "PAPER_FULL_CUT", "PAPER_PART_CUT",
     "BARCODE_TXT_OFF", "BARCODE_TXT_ABV", "BARCODE_TXT_BLW", "BARCODE_TXT_BTH",
     "BARCODE_FONT_A", "BARCODE_FONT_B", "BARCODE_HEIGHT", "BARCODE_HEIGHT_DEFAULT",
     "BARCODE_WIDTH_1", "BARCODE_WIDTH_2", "BARCODE_WIDTH_3", "BARCODE_WIDTH_4",
     "BARCODE_WIDTH_5", "BARCODE_WIDTH_DEFAULT",
     "BARCODE_UPC_A", "BARCODE_UPC_E", "BARCODE_EAN13", "BARCODE_EAN8", "BARCODE_CODE39",
     "BARCODE_ITF", "BARCODE_NW7", "BARCODE_CODE93", "BARCODE_CODE128",
     "TYPE_QR", "CODE2D", "QR_LEVEL_L", "QR_LEVEL_M", "QR_LEVEL_Q", "QR_LEVEL_H",
     "BITMAP_S8", "BITMAP_D8", "BITMAP_S24", "BITMAP_D24",
     "GSV0_NORMAL", "GSV0_DW", "GSV0_DH", "GSV0_DWDH",
     "QS_BARCODE_MODE_ON", "QS_BARCODE_MODE_OFF", "QS_BARCODE_HEIGHT_DEFAULT",
     "QS_PIXEL_SIZE_CMD", "QS_VERSION_CMD", "QS_LEVEL_CMD",
     "QS_SAVEBUF_CMD_P1", "QS_SAVEBUF_CMD_P2", "QS_PRINTBUF_CMD_P1", "QS_PRINTBUF_CMD_P2" >>

\* the token of a command
Cmd(name) == <<0 - 1 - (CHOOSE i \in 1..Len(CommandNames) : CommandNames[i] = name)>>

\* JavaScript's undefined, as the value of a lookup that finds no key
undefined == <<0 - 1>>

\* _.EOL
EOL == <<10>>

TEXT_FORMAT ==
  { "TXT_NORMAL", "TXT_2HEIGHT", "TXT_2WIDTH", "TXT_4SQUARE", "TXT_UNDERL_OFF",
    "TXT_UNDERL_ON", "TXT_UNDERL2_ON", "TXT_BOLD_OFF", "TXT_BOLD_ON", "TXT_ITALIC_OFF",
    "TXT_ITALIC_ON", "TXT_FONT_A", "TXT_FONT_B", "TXT_FONT_C", "TXT_ALIGN_LT",
    "TXT_ALIGN_CT", "TXT_ALIGN_RT" }

HARDWARE == {"HW_INIT", "HW_SELECT", "HW_RESET"}

BARCODE_FORMAT ==
  { "BARCODE_TXT_OFF", "BARCODE_TXT_ABV", "BARCODE_TXT_BLW", "BARCODE_TXT_BTH",
    "BARCODE_FONT_A", "BARCODE_FONT_B", "BARCODE_HEIGHT_DEFAULT", "BARCODE_WIDTH_DEFAULT",
    "BARCODE_UPC_A", "BARCODE_UPC_E", "BARCODE_EAN13", "BARCODE_EAN8", "BARCODE_CODE39",
    "BARCODE_ITF", "BARCODE_NW7", "BARCODE_CODE93", "BARCODE_CODE128" }

CODE2D_FORMAT == {"TYPE_QR", "CODE2D", "QR_LEVEL_L", "QR_LEVEL_M", "QR_LEVEL_Q", "QR_LEVEL_H"}

BITMAP_FORMAT == {"BITMAP_S8", "BITMAP_D8", "BITMAP_S24", "BITMAP_D24"}

GSV0_FORMAT == {"GSV0_NORMAL", "GSV0_DW", "GSV0_DH", "GSV0_DWDH"}

\* table[key]: the entry, or undefined when the table has no such key
Lookup(table, key) == IF key \in table THEN Cmd(key) ELSE undefined

\* String.prototype.toUpperCase on the names the callers pass
ToUpperCase(s) ==
  CASE s = "lt" -> "LT" [] s = "ct" -> "CT" [] s = "rt" -> "RT"
    [] s = "a" -> "A" [] s = "b" -> "B" [] s = "c" -> "C"
    [] s = "i" -> "I" [] s = "u" -> "U" [] s = "bi" -> "BI" [] s = "normal" -> "NORMAL"
    [] s = "init" -> "INIT" [] s = "select" -> "SELECT" [] s = "reset" -> "RESET"
    [] s = "xx" -> "XX" [] s = "bogus" -> "BOGUS"
    [] s = "blw" -> "BLW" [] s = "abv" -> "ABV" [] s = "off" -> "OFF"
    [] s = "l" -> "L" [] s = "m" -> "M" [] s = "q" -> "Q" [] s = "h" -> "H"
    [] s = "d8" -> "D8" [] s = "s8" -> "S8" [] s = "d24" -> "D24" [] s = "s24" -> "S24"
    [] s = "dwdh" -> "DWDH" [] s = "dw" -> "DW" [] s = "dh" -> "DH"
    [] OTHER -> s

----------------------------------------------------------------------------
(* mutable-buffer: the writes of the MutableBuffer *)

\* write(string): the string's UTF-8 bytes; write(undefined) writes the text
\* "undefined" (the value is turned into a string)
write(buf, data) == buf \o Utf8Encode(IF data = undefined THEN StrUndefined ELSE data)

\* the bytes written at offset 0 instead of after the content
writeBytesAtStart(buf, bytes) == bytes \o SubSeq(buf, Len(bytes) + 1, Len(buf))

\* write(Buffer) and write(Array): the bytes as they are, after the content
writeBytes(buf, bytes) == buf \o bytes

writeUInt8(buf, v) == buf \o <<v>>

writeUInt16LE(buf, v) == buf \o <<v % 256, (v \div 256) % 256>>

\* iconv.encode(str, encoding): ASCII as is, the CJK character of the inputs
\* as its two GB18030 bytes, '?' for what the charset cannot express
IconvSupported == {"GB18030", "utf8", "ascii"}

IconvChar(c, enc) ==
  IF enc = "utf8" THEN Utf8Char(c)
  ELSE IF c < 128 THEN <<c>>
  ELSE IF c = 20013 /\ enc = "GB18030" THEN <<214, 208>>
  ELSE <<63>>

RECURSIVE IconvEncode(_, _)
IconvEncode(s, enc) ==
  IF Len(s) = 0 THEN <<>>
  ELSE IF Len(s) = 1 THEN IconvChar(s[1], enc)
  ELSE LET half == Len(s) \div 2
       IN  IconvEncode(SubSeq(s, 1, half), enc) \o IconvEncode(SubSeq(s, half + 1, Len(s)), enc)

----------------------------------------------------------------------------
(* index.js: the Printer *)

\* a || b on numbers: 0 and undefined (written 0) are falsy
Or(a, b) == IF a # 0 THEN a ELSE b

\* options && options.width
OptWidth(o) == IF o.defined THEN o.width ELSE 0

\* options && options.encoding
OptEncoding(o) == IF o.defined THEN o.encoding ELSE ""

UndefinedOptions == [defined |-> FALSE, width |-> 0, encoding |-> ""]

\* lines 65-77: the constructor; called without new it constructs again with
\* the adapter alone
CtorOptions(withNew, opts) == IF withNew THEN opts ELSE UndefinedOptions

Printer(withNew, opts) ==
  /\ options = CtorOptions(withNew, opts)
  /\ buffer = <<>>
  /\ encoding = (IF OptEncoding(options) # "" THEN OptEncoding(options) ELSE "GB18030")
  /\ width = Or(OptWidth(options), 48)
  /\ model = "null"
  /\ ctor = [withNew |-> withNew, options |-> opts]

\* one operation of the builder has run: its result, the buffer it leaves and
\* the place in the buffer where its bytes start; a session calls nothing
\* after close
Call(name, args, newBuffer, ret) ==
  /\ nops < MaxOps
  /\ closed = 0
  /\ nops' = nops + 1
  /\ buffer' = newBuffer
  /\ op' = [name |-> name, args |-> args, ret |-> ret, at |-> Len(buffer)]
  /\ callLog' = callLog \o SubSeq(newBuffer, Len(buffer) + 1, Len(newBuffer))
  /\ appendLog' = appendLog \o SubSeq(newBuffer, Len(buffer) + 1, Len(newBuffer))
  /\ UNCHANGED <<flushes, ctor, codecVars>>

\* an operation that starts no timer
Finish(name, args, newBuffer, ret) ==
  /\ Call(name, args, newBuffer, ret)
  /\ UNCHANGED timerVars

\* lines 99-102
SetModel(m) ==
  /\ model' = m
  /\ Finish("model", <<m>>, buffer, "this")
  /\ UNCHANGED <<width, options, encoding, wire, closed, pending>>

\* lines 339-342
Encode(e) ==
  /\ encoding' = e
  /\ Finish("encode", <<e>>, buffer, "this")
  /\ UNCHANGED <<width, options, model, wire, closed, pending>>

\* lines 154-157
print(buf, content) == writeBytes(buf, content)

\* lines 182-184: iconv.encode throws for an encoding it does not know, before
\* print is called
Text(content) ==
  /\ IF encoding \in IconvSupported
     THEN Finish("text", <<content>>, print(buffer, IconvEncode(content \o EOL, encoding)), "this")
     ELSE Finish("text", <<content>>, buffer, "throw")
  /\ UNCHANGED <<width, options, model, encoding, wire, closed, pending>>

\* lines 349-352
feed(buf, n) == write(buf, Rep(EOL[1], Or(n, 1)))

\* lines 370-375
Align(a) ==
  /\ Finish("align", <<a>>, write(buffer, Lookup(TEXT_FORMAT, "TXT_ALIGN_" \o ToUpperCase(a))), "this")
  /\ UNCHANGED <<width, options, model, encoding, wire, closed, pending>>

\* lines 385-388
FontWidth(family) ==
  IF ToUpperCase(family) = "A" THEN Or(OptWidth(options), 42) ELSE Or(OptWidth(options), 56)

\* lines 381-390
Font(family) ==
  /\ width' = FontWidth(family)
  /\ Finish("font", <<family>>, write(buffer, Lookup(TEXT_FORMAT, "TXT_FONT_" \o ToUpperCase(family))), "this")
  /\ UNCHANGED <<options, model, encoding, wire, closed, pending>>

\* lines 397-463: the three commands of a style; an unknown type takes the
\* default branch
StyleCommands(type) ==
  LET t == ToUpperCase(type)
      bold == IF t \in {"B", "BI", "BIU", "BIU2", "BU", "BU2"} THEN "TXT_BOLD_ON" ELSE "TXT_BOLD_OFF"
      italic == IF t \in {"I", "BI", "BIU", "BIU2", "IU", "IU2"} THEN "TXT_ITALIC_ON" ELSE "TXT_ITALIC_OFF"
      underl == IF t \in {"U", "BIU", "BU", "IU"} THEN "TXT_UNDERL_ON"
                ELSE IF t \in {"U2", "BIU2", "BU2", "IU2"} THEN "TXT_UNDERL2_ON"
                ELSE "TXT_UNDERL_OFF"
  IN  <<bold, italic, underl>>

\* lines 396-465
Style(type) ==
  /\ LET c == StyleCommands(type)
     IN  Finish("style", <<type>>,
                write(write(write(buffer, Cmd(c[1])), Cmd(c[2])), Cmd(c[3])), "this")
  /\ UNCHANGED <<width, options, model, encoding, wire, closed, pending>>

\* _.TEXT_FORMAT.TXT_CUSTOM_SIZE(width, height)
TXT_CUSTOM_SIZE(w, h) == Cmd("TXT_CUSTOM_SIZE") \o <<(w - 1) * 16 + (h - 1)>>

\* lines 473-487
Size(w, h) ==
  /\ LET normal == write(buffer, Cmd("TXT_NORMAL"))
         newBuffer ==
           IF 2 >= w /\ 2 >= h
           THEN IF w = 2 /\ h = 2 THEN write(normal, Cmd("TXT_4SQUARE"))
                ELSE IF w = 1 /\ h = 2 THEN write(normal, Cmd("TXT_2HEIGHT"))
                ELSE IF w = 2 /\ h = 1 THEN write(normal, Cmd("TXT_2WIDTH"))
                ELSE normal
           ELSE write(buffer, TXT_CUSTOM_SIZE(w, h))
     IN  Finish("size", <<w, h>>, newBuffer, "this")
  /\ UNCHANGED <<width, options, model, encoding, wire, closed, pending>>

\* lines 509-517; n = -1 stands for a call without argument
lineSpace(buf, n) ==
  IF n = 0 - 1 THEN write(buf, Cmd("LS_DEFAULT")) ELSE writeUInt8(write(buf, Cmd("LS_SET")), n)

\* lines 524-527
Hardware(hw) ==
  /\ Finish("hardware", <<hw>>, write(buffer, Lookup(HARDWARE, "HW_" \o ToUpperCase(hw))), "this")
  /\ UNCHANGED <<width, options, model, encoding, wire, closed, pending>>

\* lines 792-798
Cut(part, n) ==
  /\ Finish("cut", <<part, n>>,
            write(feed(buffer, Or(n, 3)), Cmd(IF part THEN "PAPER_PART_CUT" ELSE "PAPER_FULL_CUT")),
            "this")
  /\ UNCHANGED <<width, options, model, encoding, wire, closed, pending>>

\* String.prototype.toLowerCase, on hex text
ToLowerChar(c) == IF c \in 65..90 THEN c + 32 ELSE c

\* data.replace(/(\s|:)/g, '')
StripSeparators(s) == SelectSeq(s, LAMBDA c : c \notin {9, 10, 13, 32, 58})

\* lines 847-855: data is [isBuffer, value]
Raw(data) ==
  /\ LET newBuffer ==
           IF data.isBuffer THEN writeBytes(buffer, data.value)
           ELSE writeBytes(buffer,
                  BufferFromHex(StripSeparators([i \in 1..Len(data.value) |-> ToLowerChar(data.value[i])])))
     IN  Finish("raw", <<data>>, newBuffer, "this")
  /\ UNCHANGED <<width, options, model, encoding, wire, closed, pending>>

\* the content is rendered but not cleared
FlushKeepingBuffer == buffer

\* mutable-buffer's flush(): the buffer after its content was taken
FlushedBuffer == <<>>

\* lines 781-785: the whole buffer goes to the adapter in one write
FlushBody(name) ==
  /\ flushes < MaxFlush
  /\ closed = 0
  /\ flushes' = flushes + 1
  /\ wire' = Append(wire, buffer)
  /\ buffer' = FlushedBuffer
  /\ callLog' = <<>>
  /\ appendLog' = <<>>
  /\ op' = [name |-> name, args |-> <<callLog, appendLog>>, ret |-> "this", at |-> 0]
  /\ UNCHANGED <<width, options, model, encoding, pending, nops, ctor, codecVars, timerVars>>

Flush ==
  /\ FlushBody("flush")
  /\ UNCHANGED closed

\* lines 806-811: flush, and the adapter is closed when the write is done
Close ==
  /\ FlushBody("close")
  /\ closed' = closed + 1

----------------------------------------------------------------------------
(* index.js: barcode *)

\* _.BARCODE_FORMAT.BARCODE_HEIGHT(height)
BARCODE_HEIGHT(h) == Cmd("BARCODE_HEIGHT") \o <<h>>

\* _.BARCODE_FORMAT.BARCODE_WIDTH[width]
BARCODE_WIDTH(w) ==
  Cmd(CASE w = 1 -> "BARCODE_WIDTH_1" [] w = 2 -> "BARCODE_WIDTH_2" [] w = 3 -> "BARCODE_WIDTH_3"
        [] w = 4 -> "BARCODE_WIDTH_4" [] OTHER -> "BARCODE_WIDTH_5")

\* type.replace('-', '_')
ReplaceDash(type) ==
  CASE type = "UPC-A" -> "UPC_A" [] type = "UPC-E" -> "UPC_E" [] OTHER -> type

\* a || b on names: "" stands for undefined
OrName(a, b) == IF a # "" THEN a ELSE b

\* lines 539-551: includeParity is assigned in the options-object branch only
IncludeParity(form) == IF form.positional THEN FALSE ELSE form.includeParity # "false"

\* lines 558-563: the message of the error thrown for the payload's length, or ""
BarcodeLengthError(code, type) ==
  IF type = "EAN13" /\ Len(code) # 12 THEN "EAN13 Barcode type requires code length 12"
  ELSE IF type = "EAN8" /\ Len(code) # 7 THEN "EAN8 Barcode type requires code length 7"
  ELSE ""

\* lines 596-604: the payload frame
BarcodeFrame(code, type, includeParity) ==
  LET parityBit == IF includeParity /\ type \in {"EAN13", "EAN8"} THEN getParityBit(code) ELSE <<>>
      codeLen == IF type \in {"CODE128", "CODE93"} THEN codeLength(code) ELSE <<>>
  IN  codeLen \o code \o (IF includeParity THEN parityBit ELSE <<>>) \o NUL

\* the mutant of BarcodeWrites: the symbology is selected before the text
\* position
BarcodeWritesSymbologyFirst(buf, code, type, form) ==
  LET qs == model = "qsprinter"
      b1 == IF qs THEN write(buf, Cmd("QS_BARCODE_MODE_ON")) ELSE buf
      b2 == IF qs THEN b1
            ELSE IF form.width >= 1 /\ form.width <= 5 THEN write(b1, BARCODE_WIDTH(form.width))
            ELSE write(b1, Cmd("BARCODE_WIDTH_DEFAULT"))
      b3 == IF form.height >= 1 /\ form.height <= 255 THEN write(b2, BARCODE_HEIGHT(form.height))
            ELSE IF qs THEN write(b2, Cmd("QS_BARCODE_HEIGHT_DEFAULT"))
            ELSE write(b2, Cmd("BARCODE_HEIGHT_DEFAULT"))
      b4 == IF qs THEN b3
            ELSE write(b3, Lookup(BARCODE_FORMAT, "BARCODE_FONT_" \o ToUpperCase(OrName(form.font, "A"))))
      b5 == write(b4, Lookup(BARCODE_FORMAT, "BARCODE_" \o ToUpperCase(ReplaceDash(type))))
      b6 == write(b5, Lookup(BARCODE_FORMAT, "BARCODE_TXT_" \o ToUpperCase(OrName(form.position, "BLW"))))
      b7 == write(b6, BarcodeFrame(code, type, IncludeParity(form)))
  IN  IF qs THEN write(b7, Cmd("QS_BARCODE_MODE_OFF")) ELSE b7

\* lines 564-607: the writes of a barcode whose payload passed the checks
BarcodeWrites(buf, code, type, form) ==
  LET qs == model = "qsprinter"
      b1 == IF qs THEN write(buf, Cmd("QS_BARCODE_MODE_ON")) ELSE buf
      b2 == IF qs THEN b1
            ELSE IF form.width >= 1 /\ form.width <= 5 THEN write(b1, BARCODE_WIDTH(form.width))
            ELSE write(b1, Cmd("BARCODE_WIDTH_DEFAULT"))
      b3 == IF form.height >= 1 /\ form.height <= 255 THEN write(b2, BARCODE_HEIGHT(form.height))
            ELSE IF qs THEN write(b2, Cmd("QS_BARCODE_HEIGHT_DEFAULT"))
            ELSE write(b2, Cmd("BARCODE_HEIGHT_DEFAULT"))
      b4 == IF qs THEN b3
            ELSE write(b3, Lookup(BARCODE_FORMAT, "BARCODE_FONT_" \o ToUpperCase(OrName(form.font, "A"))))
      b5 == write(b4, Lookup(BARCODE_FORMAT, "BARCODE_TXT_" \o ToUpperCase(OrName(form.position, "BLW"))))
      b6 == write(b5, Lookup(BARCODE_FORMAT, "BARCODE_" \o ToUpperCase(ReplaceDash(type))))
      b7 == write(b6, BarcodeFrame(code, type, IncludeParity(form)))
  IN  IF qs THEN write(b7, Cmd("QS_BARCODE_MODE_OFF")) ELSE b7

\* lines 535-609; givenType "" stands for a call without type
Barcode(code, givenType, form) ==
  /\ LET type == OrName(givenType, "EAN13")
     IN  IF BarcodeLengthError(code, type) # ""
         THEN Finish("barcode", <<code, type, form>>, buffer, "throw")
         ELSE Finish("barcode", <<code, type, form>>, BarcodeWrites(buffer, code, type, form), "this")
  /\ UNCHANGED <<width, options, model, encoding, wire, closed, pending>>

----------------------------------------------------------------------------
(* index.js: qrcode *)

\* _.MODEL.QSPRINTER.CODE2D_FORMAT
QS_PIXEL_SIZE_MIN == 1
QS_PIXEL_SIZE_MAX == 24
QS_PIXEL_SIZE_DEFAULT == 12
QS_VERSION_MIN == 1
QS_VERSION_MAX == 16
QS_VERSION_DEFAULT == 3
QS_LEN_OFFSET == 3

\* _.MODEL.QSPRINTER.CODE2D_FORMAT.LEVEL.OPTIONS[key]: a number, which write
\* turns into its decimal text; undefined for any other key
QS_LEVEL_OPTIONS(key) ==
  CASE key = "L" -> <<52, 56>> [] key = "M" -> <<52, 57>>
    [] key = "Q" -> <<53, 48>> [] key = "H" -> <<53, 49>>
    [] OTHER -> undefined

\* lines 637-642 and 647-652: a number absent (0) takes the default, one
\* out of range the nearest bound
Clamp(v, min, max, default) ==
  IF v = 0 THEN default ELSE IF v < min THEN min ELSE IF v > max THEN max ELSE v

\* line 632: the condition under which the length error is thrown
QrLengthError(dataRaw) == Len(dataRaw) < 1 /\ Len(dataRaw) > 2710

\* lines 621-629: the generic protocol
QrGenericWrites(buf, code, version, level, size) ==
  LET b1 == write(write(buf, Cmd("TYPE_QR")), Cmd("CODE2D"))
      b2 == writeUInt8(b1, Or(version, 3))
      b3 == write(b2, Lookup(CODE2D_FORMAT, "QR_LEVEL_" \o ToUpperCase(OrName(level, "L"))))
      b4 == writeUInt8(b3, Or(size, 6))
      b5 == writeUInt16LE(b4, Len(code))
  IN  write(b5, code)

\* lines 636-671: the QSPrinter protocol; a level left out becomes the
\* command string QR_LEVEL_L, which is no key of LEVEL.OPTIONS
QrQsWrites(buf, dataRaw, version, level, size) ==
  LET s == Clamp(size, QS_PIXEL_SIZE_MIN, QS_PIXEL_SIZE_MAX, QS_PIXEL_SIZE_DEFAULT)
      v == Clamp(version, QS_VERSION_MIN, QS_VERSION_MAX, QS_VERSION_DEFAULT)
      key == IF level = "" THEN "QR_LEVEL_L" ELSE ToUpperCase(level)
      b1 == writeUInt8(write(buf, Cmd("QS_PIXEL_SIZE_CMD")), s)
      b2 == writeUInt8(write(b1, Cmd("QS_VERSION_CMD")), v)
      b3 == write(write(b2, Cmd("QS_LEVEL_CMD")), QS_LEVEL_OPTIONS(key))
      b4 == writeUInt16LE(write(b3, Cmd("QS_SAVEBUF_CMD_P1")), Len(dataRaw) + QS_LEN_OFFSET)
      b5 == writeBytes(write(b4, Cmd("QS_SAVEBUF_CMD_P2")), dataRaw)
      b6 == writeUInt16LE(write(b5, Cmd("QS_PRINTBUF_CMD_P1")), Len(dataRaw) + QS_LEN_OFFSET)
  IN  write(b6, Cmd("QS_PRINTBUF_CMD_P2"))

\* lines 619-674
Qrcode(code, version, level, size) ==
  /\ IF model # "qsprinter"
     THEN Finish("qrcode", <<code, version, level, size>>,
                 QrGenericWrites(buffer, code, version, level, size), "this")
     ELSE LET dataRaw == IconvEncode(code, "utf8")
          IN  IF QrLengthError(dataRaw)
              THEN Finish("qrcode", <<code, version, level, size>>, buffer, "throw")
              ELSE Finish("qrcode", <<code, version, level, size>>,
                          QrQsWrites(buffer, dataRaw, version, level, size), "this")
  /\ UNCHANGED <<width, options, model, encoding, wire, closed, pending>>

----------------------------------------------------------------------------
(* index.js and image.js: raster, image, qrimage *)

\* image.js: Image.prototype.toRaster; every pixel is set
toRaster(image) ==
  LET n == (image.w + 7) \div 8
  IN  [data |-> Rep(255, n * image.h), width |-> n, height |-> image.h]

\* image.js: Image.prototype.toBitmap(density): one line per band of density
\* rows, density / 8 bytes per column
toBitmap(image, density) ==
  [data |-> [y \in 1..((image.h + density - 1) \div density) |-> Rep(255, image.w * (density \div 8))],
   density |-> density]

\* qr.imageSync and get-pixels: the pixels of the symbol of a content
QrSymbol(content) == [isImage |-> TRUE, w |-> 8 * (Len(content) + 1), h |-> Len(content) + 1]

\* lines 739-748: the writes of raster for an Image; mode "" stands for undefined
RasterWrites(buf, image, givenMode) ==
  LET m == OrName(givenMode, "normal")
      mode == IF m \in {"dhdw", "dwh", "dhw"} THEN "dwdh" ELSE m
      raster == toRaster(image)
      b1 == write(buf, Lookup(GSV0_FORMAT, "GSV0_" \o ToUpperCase(mode)))
      b2 == writeUInt16LE(writeUInt16LE(b1, raster.width), raster.height)
  IN  writeBytes(b2, raster.data)

\* lines 736-750
Raster(image, mode) ==
  /\ IF ~image.isImage
     THEN Finish("raster", <<image, mode>>, buffer, "throw")
     ELSE Finish("raster", <<image, mode>>, RasterWrites(buffer, image, mode), "this")
  /\ UNCHANGED <<width, options, model, encoding, wire, closed, pending>>

\* lines 719-722: one band
RECURSIVE BandWrites(_, _, _, _)
BandWrites(buf, lines, header, n) ==
  IF lines = <<>> THEN buf
  ELSE LET line == Head(lines)
           b1 == writeUInt16LE(write(buf, header), Len(line) \div n)
       IN  BandWrites(write(writeBytes(b1, line), EOL), Tail(lines), header, n)

\* lines 709-727: the writes of image for an Image.  Each band's callback runs
\* up to its await inside forEach, so every band is written before forEach
\* returns and before the closing lineSpace
ImageWrites(buf, image, givenDensity) ==
  LET density == OrName(givenDensity, "d24")
      n == IF density \in {"d8", "s8"} THEN 1 ELSE 3
      header == Lookup(BITMAP_FORMAT, "BITMAP_" \o ToUpperCase(density))
      bitmap == toBitmap(image, n * 8)
  IN  lineSpace(BandWrites(lineSpace(buf, 0), bitmap.data, header, n), 0 - 1)

\* line 706: an async function returns a promise, fulfilled with the value
\* returned or rejected with the error thrown
ImageReturn(ok) == IF ok THEN "promise" ELSE "rejected"

\* lines 718-726: the bands forEach hands to its callback
ImageBands(image, givenDensity) ==
  toBitmap(image, (IF OrName(givenDensity, "d24") \in {"d8", "s8"} THEN 1 ELSE 3) * 8).data

\* lines 706-728: forEach calls the callback of every band in turn; each call
\* writes its band, starts its timer of 200 ms and returns at its await
ImageOp(image, density) ==
  /\ IF ~image.isImage
     THEN /\ Call("image", <<image, density>>, buffer, ImageReturn(FALSE))
          /\ UNCHANGED timerVars
     ELSE /\ Call("image", <<image, density>>, ImageWrites(buffer, image, density), ImageReturn(TRUE))
          /\ timers' = timers + Len(ImageBands(image, density))
          /\ bandLog' = [k \in 1..Len(ImageBands(image, density)) |-> "band"]
  /\ UNCHANGED <<width, options, model, encoding, wire, closed, pending>>

\* lines 723-725: a timer fires and resolves the promise its band's callback
\* awaits; the callback has nothing left to do
TimerFires ==
  /\ timers > 0
  /\ timers' = timers - 1
  /\ bandLog' = Append(bandLog, "delay")
  /\ op' = [name |-> "timer", args |-> <<>>, ret |-> "none", at |-> Len(buffer)]
  /\ UNCHANGED <<buffer, width, options, model, encoding, wire, closed, pending,
                 callLog, appendLog, nops, flushes, ctor, codecVars>>

\* lines 683-698: the symbol is handed to getPixels, whose callback runs
\* later; err is the outcome of the decoding.  The bytes of the operation are
\* the raster of the decoded symbol
Qrimage(content, mode, err) ==
  /\ nops < MaxOps
  /\ closed = 0
  /\ nops' = nops + 1
  /\ pending' = Append(pending, [image |-> QrSymbol(content), mode |-> mode, err |-> err, done |-> FALSE,
                                 issued |-> flushes])
  /\ op' = [name |-> "qrimage", args |-> <<content, mode>>, ret |-> "this", at |-> Len(buffer)]
  /\ callLog' = callLog \o (IF err THEN <<>> ELSE RasterWrites(<<>>, QrSymbol(content), mode))
  /\ UNCHANGED <<buffer, appendLog, width, options, model, encoding, wire, closed, flushes, ctor, codecVars, timerVars>>

\* lines 692-696: the callback of getPixels
GetPixelsCallback(i) ==
  /\ i \in 1..Len(pending)
  /\ ~pending[i].done
  /\ pending' = [pending EXCEPT ![i].done = TRUE]
  /\ buffer' = (IF pending[i].err THEN buffer
                ELSE RasterWrites(buffer, pending[i].image, pending[i].mode))
  /\ appendLog' = appendLog \o SubSeq(buffer', Len(buffer) + 1, Len(buffer'))
  /\ op' = [name |-> "getPixelsCallback", args |-> <<pending[i].err, pending[i].issued>>,
            ret |-> "none", at |-> Len(buffer)]
  /\ UNCHANGED <<width, options, model, encoding, wire, closed, callLog, nops, flushes, ctor, codecVars, timerVars>>

----------------------------------------------------------------------------
(* The layout operations: they build strings and hand them to text *)

\* String.prototype.substring(from, to) for 0 <= from <= to: both ends are
\* clamped to the length
Substring(s, from, to) ==
  SubSeq(s, (IF from < Len(s) THEN from ELSE Len(s)) + 1, IF to < Len(s) THEN to ELSE Len(s))

\* for (let i = 0; i < n; i++) str += ' ' : nothing for n <= 0
Spaces(n) == IF n > 0 THEN Rep(SPACE[1], n) ELSE <<>>

\* Math.floor(x / 2) and Math.round(x / 2) of an integer x (round takes a
\* half towards +Infinity)
FloorHalf(x) == x \div 2

RoundHalf(x) == (x + 1) \div 2

\* this.text(l1); this.text(l2); ... : the bytes the calls append
RECURSIVE TextAll(_, _)
TextAll(buf, lines) ==
  IF lines = <<>> THEN buf
  ELSE TextAll(print(buf, IconvEncode(lines[1] \o EOL, encoding)), Tail(lines))

\* a layout operation has run: the strings it handed to text, in order, and
\* what text made of them (text throws at the first string when the encoding
\* is unknown)
Layout(name, args, lines, ret) ==
  /\ fn = "none"
  /\ closed = 0
  /\ fn' = name
  /\ in1' = <<>>
  /\ in2' = <<>>
  /\ inw' = width
  /\ out' = lines
  /\ LET ok == lines = <<>> \/ encoding \in IconvSupported
         newBuffer == IF ok THEN TextAll(buffer, lines) ELSE buffer
     IN  /\ buffer' = newBuffer
         /\ op' = [name |-> name, args |-> args, ret |-> (IF ok THEN ret ELSE "throw"),
                   at |-> Len(buffer)]
         /\ callLog' = callLog \o SubSeq(newBuffer, Len(buffer) + 1, Len(newBuffer))
         /\ appendLog' = appendLog \o SubSeq(newBuffer, Len(buffer) + 1, Len(newBuffer))
  /\ nops' = nops + 1
  /\ UNCHANGED <<width, options, model, encoding, wire, closed, pending, flushes, ctor, timerVars>>

\* lines 929-951: the left text is longer than wrapByte
ThreeColumnWrapLines(text, wrapByte) ==
  LET c_bytes == bytesLength(text.centerTxt)
      r_bytes == bytesLength(text.rightTxt)
      tempStr == Substring(text.leftTxt, wrapByte \div 2, Len(text.leftTxt))
      str == Substring(text.leftTxt, 0, wrapByte \div 2)
      tempBytes == bytesLength(text.leftTxt)
      spaceLength == RoundHalf(width - tempBytes - c_bytes - r_bytes)
  IN  IF text.leftSpace # 0
      THEN <<spaceText(str, text.rightTxt, width), tempStr>>
      ELSE <<str \o Spaces(spaceLength) \o text.centerTxt \o Spaces(spaceLength) \o text.rightTxt,
             tempStr>>

\* lines 961-970: both gaps are filled by a loop up to the same spaceLength
ThreeColumnGaps(R) == <<FloorHalf(R), FloorHalf(R)>>

\* lines 952-975: no wrapping
ThreeColumnPlainLines(text) ==
  LET l_bytes == bytesLength(text.leftTxt)
      c_bytes == bytesLength(text.centerTxt)
      r_bytes == bytesLength(text.rightTxt)
      gaps == ThreeColumnGaps(width - l_bytes - c_bytes - r_bytes)
  IN  IF text.leftSpace # 0
      THEN <<spaceText(spaceText(text.leftTxt, text.centerTxt, text.leftSpace), text.rightTxt, width)>>
      ELSE <<text.leftTxt \o Spaces(gaps[1]) \o text.centerTxt \o Spaces(gaps[2]) \o text.rightTxt>>

\* lines 919-978; leftSpace 0 stands for an absent (or zero) leftSpace
threeColumnLayout(text, wrapByte) ==
  IF bytesLength(text.leftTxt) > wrapByte
  THEN ThreeColumnWrapLines(text, wrapByte)
  ELSE ThreeColumnPlainLines(text)

ThreeColumnLayout(text, wrapByte) ==
  Layout("threeColumnLayout", <<text, wrapByte>>, threeColumnLayout(text, wrapByte), "this")

\* a JavaScript number that need not be an integer, as <<numerator, denominator>>
\* with a positive denominator: the iterations of for (j = 0; j < n/d; j++)
LoopCount(n, d) == IF n <= 0 THEN 0 ELSE (n + d - 1) \div d

\* the index substring makes of the number n/d: truncated, and 0 when negative
SubstringIndex(n, d) == IF n <= 0 THEN 0 ELSE n \div d

\* lines 254-258: width (a fraction of the print width) wins over cols; a cell
\* with neither keeps the cellWidth of the cell before it
CellWidth(obj, cellWidth) ==
  IF obj.width[1] # 0 THEN <<width * obj.width[1], obj.width[2]>>
  ELSE IF obj.cols # 0 THEN <<obj.cols, 1>>
  ELSE cellWidth

\* lines 262-266 and 301-304: where a cell that is too long is cut
CellCut(cw) == SubstringIndex(cw[1] - cw[2], cw[2])

CellTooLong(obj, cw) == cw[1] < Len(obj.text) * cw[2]

\* lines 268-297: the padded text of one cell
CellString(piece, align, cw) ==
  LET n == cw[1] - Len(piece) * cw[2]
  IN  IF align = "CENTER"
      THEN Spaces(LoopCount(n, 2 * cw[2])) \o piece \o Spaces(LoopCount(n - 2 * cw[2], 2 * cw[2]))
      ELSE IF align = "RIGHT"
      THEN Spaces(LoopCount(n, cw[2])) \o piece
      ELSE piece \o Spaces(LoopCount(n, cw[2]))

\* lines 250-309: the loop over the cells of one line, from cell i on; acc holds
\* lineStr, the text each cell put on the line, secondLine and secondLineEnabled
RECURSIVE TableCells(_, _, _, _)
TableCells(data, i, cellWidth, acc) ==
  IF i > Len(data) THEN acc
  ELSE LET obj == data[i]
           cw == CellWidth(obj, cellWidth)
           tooLong == CellTooLong(obj, cw)
           piece == IF tooLong THEN Substring(obj.text, 0, CellCut(cw)) ELSE obj.text
           rest == IF tooLong THEN Substring(obj.text, CellCut(cw), Len(obj.text)) ELSE <<>>
       IN  TableCells(data, i + 1, cw,
             [lineStr |-> acc.lineStr \o CellString(piece, obj.align, cw),
              pieces |-> Append(acc.pieces, piece),
              secondLine |-> Append(acc.secondLine, [obj EXCEPT !.text = rest]),
              secondLineEnabled |-> acc.secondLineEnabled \/ tooLong])

\* lines 245-320: the lines tableCustom writes, the text each cell put on each
\* of them, and whether the recursion returned; a recursion deeper than the
\* call stack ends in a RangeError after the lines written so far
RECURSIVE tableCustom(_, _, _)
tableCustom(data, depth, acc) ==
  IF depth > MaxStack THEN [acc EXCEPT !.returned = FALSE]
  ELSE LET line == TableCells(data, 1, <<width, Len(data)>>,
                     [lineStr |-> <<>>, pieces |-> <<>>, secondLine |-> <<>>,
                      secondLineEnabled |-> FALSE])
           written == [lines |-> Append(acc.lines, line.lineStr),
                       pieces |-> Append(acc.pieces, line.pieces),
                       returned |-> TRUE]
       IN  IF line.secondLineEnabled
           THEN tableCustom(line.secondLine, depth + 1, written)
           ELSE written

TableCustom(data) ==
  LET r == tableCustom(data, 1, [lines |-> <<>>, pieces |-> <<>>, returned |-> TRUE])
  IN  /\ Layout("tableCustom", <<data, r.pieces>>, r.lines, IF r.returned THEN "this" ELSE "throw")

----------------------------------------------------------------------------
(* The sessions checked *)

Digits12 == <<49, 50, 51, 52, 53, 54, 55, 56, 57, 48, 49, 50>>

OptionInputs == {UndefinedOptions, [defined |-> TRUE, width |-> 32, encoding |-> ""]}

\* new Printer(adapter), new Printer(adapter, options) and Printer(adapter, options)
CtorInputs == {<<TRUE, UndefinedOptions>>} \cup ((BOOLEAN \X OptionInputs) \ {<<FALSE, UndefinedOptions>>})

ImageInputs == {[isImage |-> TRUE, w |-> 2, h |-> 30], [isImage |-> FALSE, w |-> 0, h |-> 0]}

DefaultForm ==
  [positional |-> FALSE, width |-> 0, height |-> 0, position |-> "", font |-> "",
   includeParity |-> "unset"]

Init ==
  /\ \E c \in CtorInputs : Printer(c[1], c[2])
  /\ wire = <<>>
  /\ closed = 0
  /\ pending = <<>>
  /\ op = [name |-> "new", args |-> <<>>, ret |-> "this", at |-> 0]
  /\ callLog = <<>>
  /\ appendLog = <<>>
  /\ nops = 0
  /\ flushes = 0
  /\ fn = "none"
  /\ in1 = <<>>
  /\ in2 = <<>>
  /\ inw = 0
  /\ out = <<>>
  /\ timers = 0
  /\ bandLog = <<>>

Next ==
  \/ \E m \in {"qsprinter"} : SetModel(m)
  \/ \E e \in {"bogus"} : Encode(e)
  \/ \E content \in {<<65, 20013>>} : Text(content)
  \/ \E a \in {"lt", "xx"} : Align(a)
  \/ \E family \in {"a", "xx"} : Font(family)
  \/ \E type \in {"xx"} : Style(type)
  \/ \E s \in {<<2, 2>>} : Size(s[1], s[2])
  \/ \E hw \in {"bogus"} : Hardware(hw)
  \/ \E part \in {FALSE} : Cut(part, 0)
  \/ \E data \in {[isBuffer |-> FALSE, value |-> <<49, 68, 58, 55, 55>>]} : Raw(data)
  \/ \E code \in {Digits12} : Barcode(code, "EAN13", DefaultForm)
  \/ \E code \in {<<20013>>} : Qrcode(code, 0, "", 0)
  \/ \E image \in ImageInputs : Raster(image, "dhdw")
  \/ \E image \in ImageInputs : ImageOp(image, "")
  \/ \E err \in BOOLEAN : Qrimage(<<65>>, "dhdw", err)
  \/ \E i \in 1..Len(pending) : GetPixelsCallback(i)
  \/ TimerFires
  \/ Flush
  \/ Close

Spec == Init /\ [][Next]_vars

----------------------------------------------------------------------------
(* Inputs of the pure helpers *)

EanLens == {7, 11, 12}

Filler(i) == (3 * i + 1) % 10

\* digit strings of length 7, 11 and 12: a window of MaxFree positions takes
\* every digit, the other positions hold a fixed digit
DigitStrings ==
  { [i \in 1..L |-> 48 + (IF i \in s..(s + MaxFree - 1) THEN f[i - s + 1] ELSE Filler(i))] :
      <<L, s, f>> \in { t \in EanLens \X (1..12) \X [1..MaxFree -> 0..9] : t[2] + MaxFree - 1 <= t[1] } }

\* 'A', 0xFF (the last single-width code), 0x100 (the first double-width
\* code) and a CJK character
LayoutChars == {65, 255, 256, 20013}

LayoutStrings == UNION { [1..n -> LayoutChars] : n \in 0..MaxTxt }

CallGetParityBit(d) ==
  /\ fn = "none"
  /\ fn' = "getParityBit"
  /\ in1' = d
  /\ in2' = <<>>
  /\ inw' = 0
  /\ out' = getParityBit(d)
  /\ UNCHANGED printerVars

CallCodeLength(n) ==
  /\ fn = "none"
  /\ fn' = "codeLength"
  /\ in1' = Rep(65, n)
  /\ in2' = <<>>
  /\ inw' = 0
  /\ out' = codeLength(Rep(65, n))
  /\ UNCHANGED printerVars

CallSpaceText(l, r, w) ==
  /\ fn = "none"
  /\ fn' = "spaceText"
  /\ in1' = l
  /\ in2' = r
  /\ inw' = w
  /\ out' = spaceText(l, r, w)
  /\ UNCHANGED printerVars

InitCodec ==
  /\ Printer(TRUE, UndefinedOptions)
  /\ wire = <<>>
  /\ closed = 0
  /\ pending = <<>>
  /\ op = [name |-> "new", args |-> <<>>, ret |-> "this", at |-> 0]
  /\ callLog = <<>>
  /\ appendLog = <<>>
  /\ nops = 0
  /\ flushes = 0
  /\ fn = "none"
  /\ in1 = <<>>
  /\ in2 = <<>>
  /\ inw = 0
  /\ out = <<>>
  /\ timers = 0
  /\ bandLog = <<>>

\* a helper is applied once, to one input
NextCodec ==
  \/ fn = "none" /\ \E d \in DigitStrings : CallGetParityBit(d)
  \/ fn = "none" /\ \E n \in 0..MaxCodeLen : CallCodeLength(n)
  \/ fn = "none" /\ \E l \in LayoutStrings, r \in LayoutStrings, w \in 0..MaxW : CallSpaceText(l, r, w)

SpecCodec == InitCodec /\ [][NextCodec]_vars

----------------------------------------------------------------------------
(* Properties of the pure helpers *)

Pow3Ean(k) == IF k % 2 = 0 THEN 1 ELSE 3

\* the EAN weighted sum of a digit string: the last digit has weight 1, and
\* the weights alternate 3, 1, 3, ... leftwards from it
RECURSIVE EanSum(_, _)
EanSum(s, k) ==
  IF s = <<>> THEN 0 ELSE (s[Len(s)] - 48) * Pow3Ean(k) + EanSum(SubSeq(s, 1, Len(s) - 1), k + 1)

\* C4: for every digit string d of length 7, 11 or 12, getParityBit(d) is one
\* decimal digit c, and d followed by c has an EAN weighted sum of 0 modulo 10.
C4_ParityIsEanValid ==
  fn = "getParityBit" =>
    /\ Len(out) = 1
    /\ out[1] \in 48..57
    /\ EanSum(in1 \o out, 0) % 10 = 0

\* a payload of 12 digits whose check digit is not 0
C4_Witness ==
  /\ fn = "getParityBit"
  /\ Len(in1) = 12
  /\ out # <<48>>

\* C5: for every payload of length 1 to 255, codeLength returns exactly one
\* byte (character) whose value is the payload's length.
C5_CodeLengthIsLengthByte ==
  (fn = "codeLength" /\ Len(in1) \in 1..255) => out = <<Len(in1)>>

\* the byte width of a string: 1 per character of code 0x00FF or less, 2 per
\* other character
ByteWidth(str) == Len(str) + Cardinality({i \in 1..Len(str) : str[i] > 255})

\* C6: spaceText(left, right, w) is left, w - bytesLength(left) - bytesLength(right)
\* spaces and right, of byte width w, when w is at least the two widths
\* together; otherwise it is left followed by right.
C6_SpaceTextPads ==
  fn = "spaceText" =>
    LET l == ByteWidth(in1)
        r == ByteWidth(in2)
    IN  IF inw >= l + r
        THEN /\ out = in1 \o Rep(32, inw - l - r) \o in2
             /\ ByteWidth(out) = inw
        ELSE out = in1 \o in2

\* a left text with a double-width character, padded
C6_Witness ==
  /\ fn = "spaceText"
  /\ 20013 \in {in1[i] : i \in 1..Len(in1)}
  /\ in2 # <<>>
  /\ inw > ByteWidth(in1) + ByteWidth(in2)

----------------------------------------------------------------------------
(* Barcodes and QR codes over the whole of their inputs *)

PositionalForm ==
  [positional |-> TRUE, width |-> 2, height |-> 100, position |-> "blw", font |-> "a",
   includeParity |-> "unset"]

FormInputs ==
  { DefaultForm, PositionalForm,
    [DefaultForm EXCEPT !.includeParity = "true"],
    [DefaultForm EXCEPT !.includeParity = "false"],
    [DefaultForm EXCEPT !.width = 9, !.height = 300, !.position = "xx", !.font = "b"] }

CodeInputs ==
  { Digits12, SubSeq(Digits12, 1, 11), Digits12 \o <<51>>, SubSeq(Digits12, 1, 7),
    SubSeq(Digits12, 1, 8), Rep(65, 20) }

TypeInputs == {"", "EAN13", "EAN8", "CODE128", "CODE93", "UPC-A"}

\* payloads of 0, 1, 2710 and 2711 bytes with the defaults, and short
\* payloads, one of them of a multi-byte character, with every option
QrInputs ==
  ({Rep(65, n) : n \in {0, 1, 2710, 2711}} \X {0} \X {""} \X {0})
    \cup ({<<65, 66>>, <<20013>>} \X {0, 40} \X {"", "m", "xx"} \X {0, 99})

InitEncode ==
  /\ Printer(TRUE, UndefinedOptions)
  /\ wire = <<>>
  /\ closed = 0
  /\ pending = <<>>
  /\ op = [name |-> "new", args |-> <<>>, ret |-> "this", at |-> 0]
  /\ callLog = <<>>
  /\ appendLog = <<>>
  /\ nops = 0
  /\ flushes = 0
  /\ fn = "none"
  /\ in1 = <<>>
  /\ in2 = <<>>
  /\ inw = 0
  /\ out = <<>>
  /\ timers = 0
  /\ bandLog = <<>>

\* a session sets the model, or leaves it, and encodes one symbol
NoSymbolYet == op.name \in {"new", "model"}

NextEncode ==
  \/ \E m \in {"null", "qsprinter"} : SetModel(m)
  \/ NoSymbolYet /\ \E code \in CodeInputs, type \in TypeInputs, form \in FormInputs :
                       Barcode(code, type, form)
  \/ NoSymbolYet /\ \E q \in QrInputs : Qrcode(q[1], q[2], q[3], q[4])

SpecEncode == InitEncode /\ [][NextEncode]_vars

----------------------------------------------------------------------------
(* The layout operations, each called once on a fresh printer *)

\* 'A' (one column) and a CJK character (two columns)
ColumnChars == {65, 20013}

ColumnStrings == UNION { [1..n -> ColumnChars] : n \in 0..MaxTxt }

\* the configured print widths; 0 is no width option, which gives 48
LayoutWidths == {0, 7, 8}

ThreeColumnInputs ==
  [leftTxt : ColumnStrings, centerTxt : ColumnStrings, rightTxt : ColumnStrings, leftSpace : {0, 3}]

InitLayout ==
  /\ \E w \in LayoutWidths : Printer(TRUE, [defined |-> TRUE, width |-> w, encoding |-> ""])
  /\ wire = <<>>
  /\ closed = 0
  /\ pending = <<>>
  /\ op = [name |-> "new", args |-> <<>>, ret |-> "this", at |-> 0]
  /\ callLog = <<>>
  /\ appendLog = <<>>
  /\ nops = 0
  /\ flushes = 0
  /\ fn = "none"
  /\ in1 = <<>>
  /\ in2 = <<>>
  /\ inw = 0
  /\ out = <<>>
  /\ timers = 0
  /\ bandLog = <<>>

\* a cell sized by cols (1 or 2), by half the print width, or not at all
CellSizes == {[width |-> <<0, 1>>, cols |-> 1], [width |-> <<0, 1>>, cols |-> 2],
              [width |-> <<1, 2>>, cols |-> 0], [width |-> <<0, 1>>, cols |-> 0]}

CellInputs ==
  { [text |-> t, align |-> a, width |-> s.width, cols |-> s.cols] :
      t \in ColumnStrings, a \in {"LEFT", "CENTER", "RIGHT"}, s \in CellSizes }

\* tables of one cell, and of two cells whose second cell is short
TableInputs ==
  { <<c>> : c \in CellInputs }
    \cup { <<c, d>> : c \in CellInputs, d \in { e \in CellInputs : Len(e.text) <= 1 /\ e.align = "LEFT" } }

\* a layout operation is called once
NextLayout ==
  \/ fn = "none" /\ \E text \in ThreeColumnInputs, wrapByte \in {2, 32} : ThreeColumnLayout(text, wrapByte)
  \/ fn = "none" /\ \E data \in TableInputs : TableCustom(data)

SpecLayout == InitLayout /\ [][NextLayout]_vars

----------------------------------------------------------------------------
(* Properties of the builder *)

\* the bytes the last operation appended
Appended == SubSeq(buffer, op.at + 1, Len(buffer))

IsSuffix(x, s) == Len(x) <= Len(s) /\ SubSeq(s, Len(s) - Len(x) + 1, Len(s)) = x

IsFlush == op.name \in {"flush", "close"}

C2_Ean13FrameHasCheckDigit ==
  (op.name = "barcode" /\ op.args[2] \in {"EAN13", "EAN8"}) =>
    LET code == op.args[1]
        form == op.args[3]
        need == IF op.args[2] = "EAN13" THEN 12 ELSE 7
        body == IF model = "qsprinter" THEN SubSeq(Appended, 1, Len(Appended) - 1) ELSE Appended
    IN  /\ Len(code) # need => op.ret = "throw"
        /\ Len(code) = need =>
             /\ op.ret = "this"
             /\ form.includeParity # "false" =>
                  IsSuffix(code \o <<48 + ((10 - (EanSum(code \o <<48>>, 0) % 10)) % 10)>> \o NUL, body)

\* C3: on a QSPrinter, qrcode fails for a payload of 0 bytes or of 2711 bytes
\* or more, and succeeds for payloads of 1 and of 2710 bytes.
C3_QsQrcodeLengthChecked ==
  (op.name = "qrcode" /\ model = "qsprinter") =>
    LET n == Len(Utf8Encode(op.args[1]))
    IN  /\ (n = 0 \/ n >= 2711) => op.ret = "throw"
        /\ n \in {1, 2710} => op.ret = "this"

\* C7: with an explicit width w configured at construction, the print width
\* is w in every state; without one, font leaves it at 42 for family A (in
\* either case of the letter) and at 56 for any other family.
C7_WidthFollowsFontOrOptions ==
  IF ctor.options.defined /\ ctor.options.width > 0
  THEN width = ctor.options.width
  ELSE op.name = "font" => width = (IF op.args[1] \in {"a", "A"} THEN 42 ELSE 56)

\* C8: every operation of the builder that completes without error returns
\* the builder itself.
C8_OperationsReturnThis ==
  (op.name \notin {"new", "getPixelsCallback", "timer"} /\ op.ret \notin {"throw", "rejected"}) => op.ret = "this"

KnownModes(name) ==
  CASE name = "align" -> {"LT", "CT", "RT"}
    [] name = "font" -> {"A", "B", "C"}
    [] name = "hardware" -> {"INIT", "SELECT", "RESET"}
    [] OTHER -> {"B", "I", "U", "U2", "BI", "BIU", "BIU2", "BU", "BU2", "IU", "IU2", "NORMAL"}

\* C10: align, font, style and hardware fail for a mode name that is not a
\* known token, and append no bytes.
C10_UnknownModeRejected ==
  (op.name \in {"align", "font", "style", "hardware"} /\ ToUpperCase(op.args[1]) \notin KnownModes(op.name)) =>
    /\ op.ret = "throw"
    /\ Appended = <<>>

----------------------------------------------------------------------------
(* Properties of the layout operations *)

\* the space left on the line by the three texts of a threeColumnLayout call
ThreeColumnRemaining ==
  width - ByteWidth(op.args[1].leftTxt) - ByteWidth(op.args[1].centerTxt)
        - ByteWidth(op.args[1].rightTxt)

\* the case of C11: no leftSpace, no wrapping, the three texts fit
ThreeColumnCentredCase ==
  /\ fn = "threeColumnLayout"
  /\ op.args[1].leftSpace = 0
  /\ ByteWidth(op.args[1].leftTxt) <= op.args[2]
  /\ ThreeColumnRemaining >= 0

\* C11: without leftSpace and without wrapping, when the remaining space R
\* is not negative, threeColumnLayout hands text one line: the left text,
\* floor(R/2) spaces, the centre text, R - floor(R/2) spaces, the right text;
\* the byte width of that line is the print width.
C11_ThreeColumnFillsWidth ==
  ThreeColumnCentredCase =>
    /\ out = << op.args[1].leftTxt \o Spaces(ThreeColumnRemaining \div 2)
                 \o op.args[1].centerTxt
                 \o Spaces(ThreeColumnRemaining - (ThreeColumnRemaining \div 2))
                 \o op.args[1].rightTxt >>
    /\ ByteWidth(out[1]) = width

\* the texts cell i put on the lines of the last tableCustom call, concatenated
RECURSIVE CellPieces(_, _)
CellPieces(pieces, i) ==
  IF pieces = <<>> THEN <<>> ELSE pieces[1][i] \o CellPieces(Tail(pieces), i)

\* C16: tableCustom returns for every table, also when a cell's allotted
\* width is 1 or less: it writes finitely many lines, and the texts a cell
\* puts on the first line and on the continuation lines concatenate to the
\* cell's text.
C16_TableCustomTerminates ==
  fn = "tableCustom" =>
    /\ op.ret = "this"
    /\ Len(out) <= MaxTxt + 1
    /\ \A i \in 1..Len(op.args[1]) : CellPieces(op.args[2], i) = op.args[1][i].text

----------------------------------------------------------------------------
(* The order of the commands of barcode and qrcode *)

\* what buffer.write appends for the entry of a command table
Written(data) == write(<<>>, data)

\* the commands of the last barcode call in the order the claim C12 gives them;
\* widthOnQs says whether a QSPrinter is sent the width command
BarcodeInOrder(widthOnQs) ==
  LET code == op.args[1]
      type == op.args[2]
      form == op.args[3]
      qs == model = "qsprinter"
      requested == ~form.positional /\ form.includeParity # "false"
      modeOn == IF qs THEN Cmd("QS_BARCODE_MODE_ON") ELSE <<>>
      widthCmd == IF qs /\ ~widthOnQs THEN <<>>
                  ELSE IF form.width \in 1..5 THEN BARCODE_WIDTH(form.width)
                  ELSE Cmd("BARCODE_WIDTH_DEFAULT")
      heightCmd == IF form.height \in 1..255 THEN BARCODE_HEIGHT(form.height)
                   ELSE IF qs THEN Cmd("QS_BARCODE_HEIGHT_DEFAULT")
                   ELSE Cmd("BARCODE_HEIGHT_DEFAULT")
      fontCmd == IF qs THEN <<>>
                 ELSE Written(Lookup(BARCODE_FORMAT,
                        "BARCODE_FONT_" \o ToUpperCase(IF form.font = "" THEN "A" ELSE form.font)))
      positionCmd == Written(Lookup(BARCODE_FORMAT,
                       "BARCODE_TXT_" \o ToUpperCase(IF form.position = "" THEN "BLW" ELSE form.position)))
      symbology == Written(Lookup(BARCODE_FORMAT, "BARCODE_" \o ToUpperCase(ReplaceDash(type))))
      frame == (IF type \in {"CODE128", "CODE93"} THEN codeLength(code) ELSE <<>>)
               \o code
               \o (IF requested /\ type \in {"EAN13", "EAN8"} THEN getParityBit(code) ELSE <<>>)
               \o NUL
      modeOff == IF qs THEN Cmd("QS_BARCODE_MODE_OFF") ELSE <<>>
  IN  Appended = modeOn \o widthCmd \o heightCmd \o fontCmd \o positionCmd \o symbology
                   \o frame \o modeOff

UInt16LE(n) == <<n % 256, (n \div 256) % 256>>

\* C13: on the generic path qrcode appends the type and select commands, the
\* version byte (3 when omitted), the level command (L when omitted), the
\* module size byte (6 when omitted) and a little-endian 16-bit length field
\* whose value is the number of payload bytes that follow it in the buffer,
\* also for a payload with multi-byte characters.
C13_QrLengthCountsPayloadBytes ==
  (op.name = "qrcode" /\ op.ret = "this" /\ model # "qsprinter"
     /\ op.args[3] \in {"", "l", "m", "q", "h"}) =>
    LET version == op.args[2]
        level == op.args[3]
        size == op.args[4]
        head == Cmd("TYPE_QR") \o Cmd("CODE2D") \o <<IF version = 0 THEN 3 ELSE version>>
                  \o Cmd("QR_LEVEL_" \o ToUpperCase(IF level = "" THEN "l" ELSE level))
                  \o <<IF size = 0 THEN 6 ELSE size>>
        payload == SubSeq(Appended, Len(head) + 3, Len(Appended))
    IN  /\ IsPrefix(head, Appended)
        /\ Len(Appended) >= Len(head) + 2
        /\ SubSeq(Appended, Len(head) + 1, Len(head) + 2) = UInt16LE(Len(payload))

----------------------------------------------------------------------------
(* The asynchronous completions *)

\* band k of the last image call as the claim C14 frames it: header, column
\* count, band bytes, line terminator
RECURSIVE FramedBands(_, _, _)
FramedBands(bands, header, n) ==
  IF bands = <<>> THEN <<>>
  ELSE header \o UInt16LE(Len(bands[1]) \div n) \o bands[1] \o EOL
         \o FramedBands(Tail(bands), header, n)

\* C14: image appends the command that sets the line spacing to 0, the bands
\* of the bitmap from top to bottom, each as header, little-endian 16-bit
\* column count, band bytes and line terminator, and after the last band the
\* command that resets the line spacing, all of it before its result is
\* available; and a pacing delay elapses between the write of one band and
\* the write of the next.
C14_ImageBandsPaced ==
  /\ (op.name = "image" /\ op.ret = "promise") =>
       LET density == IF op.args[2] = "" THEN "d24" ELSE op.args[2]
           n == IF density \in {"d8", "s8"} THEN 1 ELSE 3
       IN  Appended = Cmd("LS_SET") \o <<0>>
                        \o FramedBands(ImageBands(op.args[1], op.args[2]),
                                        Cmd("BITMAP_" \o ToUpperCase(density)), n)
                        \o Cmd("LS_DEFAULT")
  /\ \A k \in 1..(Len(bandLog) - 1) : ~(bandLog[k] = "band" /\ bandLog[k + 1] = "band")

\* C15: no operation appends after a flush or close that follows it in call
\* order: whenever the callback of a qrimage call appends the raster, no
\* flush has run since that call, so that the flush after the call hands over
\* the bytes of the call.
C15_NoAppendAfterLaterFlush ==
  (op.name = "getPixelsCallback" /\ Appended # <<>>) => op.args[2] = flushes

====
